---- MODULE Spec2Model ----
(***************************************************************************)
(* Model of the health tracker: app/core/collector.py (HealthTracker and   *)
(* the __main__ bootstrap), app/core/metrics.py (HealthMetrics)            *)
(* and app/core/utils.py (the derivations and validators).                 *)
(*                                                                         *)
(* Numbers are fixed point, in tenths: 700 is 70.0 (kg, cm, years, BMI).   *)
(* The arguments of the two validators carry one more digit than their     *)
(* results, so that rounding has something to round: sleep hours go in as  *)
(* hundredths and come out as tenths, litres of water go in as thousandths *)
(* and come out as hundredths.                                             *)
(* An optional value is a sequence of length at most one: None is << >>    *)
(* and Some(v) is <<v>>.  A dict is a function whose DOMAIN is its keys.   *)
(***************************************************************************)
EXTENDS Integers, Sequences, FiniteSets, TLC

\* ------------------------------------------------------------------ bounds

\* The configured UPDATE_INTERVAL, in ticks of the model's clock.
MaxInterval == 2
\* Capacity of the health_metrics table: an INSERT into a full table fails.
MaxRows == 2

\* ------------------------------------------------------------ value helpers

None == << >>
Some(v) == <<v>>

\* dict.get(key): the value, or None for a missing key.
Get(d, k) == IF k \in DOMAIN d THEN d[k] ELSE None

\* Python truthiness of an optional number: None and 0 are falsy.
Truthy(v) == v # None /\ v[1] # 0

\* Python truthiness of an optional string: None and "" are falsy.
TruthyStr(v) == v # None /\ v[1] # ""

\* round(num/den, 0) as Python rounds: to nearest, ties to the even integer.
RoundHalfEven(num, den) ==
    LET q == num \div den
        r == num % den
    IN  IF 2 * r < den THEN q
        ELSE IF 2 * r > den THEN q + 1
        ELSE IF q % 2 = 0 THEN q ELSE q + 1

\* ------------------------------------------------------------ the registry

\* The gauges HealthTracker.__init__ registers.
TrackerGauges == {"body_weight", "body_height", "age", "bmi"}

\* The gauges HealthMetrics.__init__ registers.
HealthMetricsGauges ==
    {"body_weight", "body_height", "age", "bmi", "water_intake", "sleep_duration"}

\* The columns of CREATE TABLE health_metrics that the INSERT fills.
TableColumns == {"body_weight", "body_height", "age", "bmi"}

\* Insertion order of the keys of a dict built by read_metrics / process_raw_metrics.
KeyOrder ==
    <<"body_weight", "body_height", "water_intake", "sleep_duration", "age", "bmi">>

RECURSIVE ItemsFrom(_, _)
ItemsFrom(d, i) ==
    IF i > Len(KeyOrder) THEN << >>
    ELSE IF KeyOrder[i] \in DOMAIN d THEN <<KeyOrder[i]>> \o ItemsFrom(d, i + 1)
    ELSE ItemsFrom(d, i + 1)

\* metrics.items(): the keys of the dict in insertion order.
Items(d) == ItemsFrom(d, 1)

\* ------------------------------------------------------------- derivations

\* datetime.strptime(s, '%Y-%m-%d').date() as days since 1970-01-01; the strings
\* outside this table do not match the format and raise ValueError.
ValidDates == {"1990-01-01", "2000-02-29"}
DateDays(s) == IF s = "1990-01-01" THEN 7305 ELSE 11016

\* date.today(), as days since 1970-01-01 (2024-10-04).
Todays == {20000}

\* calculate_age: None for a falsy or unparseable string, else
\* round((today - birth_date).days / 365.25, 1), in tenths of a year.
calculate_age(birth_date_str, today) ==
    IF ~TruthyStr(birth_date_str) THEN None
    ELSE IF birth_date_str[1] \notin ValidDates THEN None
    ELSE Some(RoundHalfEven(40 * (today - DateDays(birth_date_str[1])), 1461))

\* calculate_bmi: None when either argument is falsy, else
\* round(weight_kg / (height_cm / 100) ** 2, 1), in tenths.
calculate_bmi(weight_kg, height_cm) ==
    IF ~Truthy(weight_kg) \/ ~Truthy(height_cm) THEN None
    ELSE Some(RoundHalfEven(weight_kg[1] * 1000000, height_cm[1] * height_cm[1]))

\* --------------------------------------------------------------- the input

\* A JSON object: a key is present unless its value is None ("missing" for birth_date);
\* extra adds water_intake (2.5 l) and sleep_duration (8.0 h).
RawObject(w, h, b, extra) ==
    LET D == (IF w # None THEN {"body_weight"} ELSE {})
             \cup (IF h # None THEN {"body_height"} ELSE {})
             \cup (IF b # "missing" THEN {"birth_date"} ELSE {})
             \cup (IF extra THEN {"water_intake", "sleep_duration"} ELSE {})
    IN  [k \in D |->
            CASE k = "body_weight" -> w
              [] k = "body_height" -> h
              [] k = "birth_date" -> Some(b)
              [] k = "water_intake" -> Some(25)
              [] k = "sleep_duration" -> Some(80)]

\* The input with all five fields valid (70 kg, 175 cm, born 1990-01-01).
FullObject == RawObject(Some(700), Some(1750), "1990-01-01", TRUE)

\* The objects an external writer puts in the input file: the full one, the empty
\* one, a zero weight with an unparseable date, another weight with no birth date.
RawObjects ==
    {FullObject,
     RawObject(None, None, "missing", FALSE),
     RawObject(Some(0), Some(1750), "not-a-date", FALSE),
     RawObject(Some(800), Some(1750), "missing", FALSE)}

\* What the scheduler finds at METRICS_FILE_PATH: no file, a file that is not JSON,
\* JSON that is not an object (a list, a number), or a JSON object.
Files ==
    {[kind |-> "absent"], [kind |-> "invalid"], [kind |-> "nonobject"]}
    \cup {[kind |-> "object", raw |-> r] : r \in RawObjects}

\* The dict read_metrics builds from the parsed object (collector.py lines 91-104).
BuildMetrics(raw_metrics, today) ==
    LET D == {"body_weight", "body_height", "bmi"}
             \cup (IF "birth_date" \in DOMAIN raw_metrics THEN {"age"} ELSE {})
    IN  [k \in D |->
            CASE k = "body_weight" -> Get(raw_metrics, "body_weight")
              [] k = "body_height" -> Get(raw_metrics, "body_height")
              [] k = "age" -> calculate_age(raw_metrics["birth_date"], today)
              [] k = "bmi" -> calculate_bmi(Get(raw_metrics, "body_weight"),
                                            Get(raw_metrics, "body_height"))]

\* A read_metrics whose calculate_age lets the ValueError of strptime out.
read_metrics_age_raises(file, tmpBefore, today) ==
    CASE file.kind = "absent" -> [ret |-> None, exc |-> "none", tmp |-> tmpBefore]
      [] file.kind = "invalid" -> [ret |-> None, exc |-> "none", tmp |-> TRUE]
      [] file.kind = "nonobject" ->
            [ret |-> None, exc |-> "AttributeError", tmp |-> FALSE]
      [] file.kind = "object" ->
            IF /\ "birth_date" \in DOMAIN file.raw
               /\ TruthyStr(file.raw["birth_date"])
               /\ file.raw["birth_date"][1] \notin ValidDates
            THEN [ret |-> None, exc |-> "ValueError", tmp |-> FALSE]
            ELSE [ret |-> Some(BuildMetrics(file.raw, today)), exc |-> "none",
                  tmp |-> FALSE]

\* A read_metrics that treats a missing file as an empty object.
read_metrics_missing_as_empty(file, tmpBefore, today) ==
    CASE file.kind = "absent" ->
            [ret |-> Some(BuildMetrics(<< >>, today)), exc |-> "none", tmp |-> tmpBefore]
      [] file.kind = "invalid" -> [ret |-> None, exc |-> "none", tmp |-> TRUE]
      [] file.kind = "nonobject" ->
            [ret |-> None, exc |-> "AttributeError", tmp |-> FALSE]
      [] file.kind = "object" ->
            [ret |-> Some(BuildMetrics(file.raw, today)), exc |-> "none", tmp |-> FALSE]

\* read_metrics: ret is the returned value (None, or Some(dict)), exc the exception
\* that leaves it ("none" when it returns), tmp whether '<metrics_file>.tmp' exists
\* afterwards.  copy2 of a missing file raises FileNotFoundError before the copy is
\* made; json.load of bad syntax raises JSONDecodeError before os.remove; .get on a
\* parsed value that is no dict raises AttributeError, which no except clause names.
read_metrics(file, tmpBefore, today) ==
    CASE file.kind = "absent" -> [ret |-> None, exc |-> "none", tmp |-> tmpBefore]
      [] file.kind = "invalid" -> [ret |-> None, exc |-> "none", tmp |-> TRUE]
      [] file.kind = "nonobject" ->
            [ret |-> None, exc |-> "AttributeError", tmp |-> FALSE]
      [] file.kind = "object" ->
            [ret |-> Some(BuildMetrics(file.raw, today)), exc |-> "none", tmp |-> FALSE]

\* An `if` that wants some value in the dict: `if metrics and any(metrics.values())`.
MetricsAnyValue(m) == m # None /\ \E k \in DOMAIN m[1] : Truthy(m[1][k])

\* `if metrics:` - None and the empty dict are falsy.
MetricsTruthy(m) == m # None /\ DOMAIN m[1] # {}

\* ------------------------------------------------------------------- state

VARIABLES
    pc,               \* where the process is: the bootstrap, then periodic_update
    password,         \* conn_params['password']: None when POSTGRES_PASSWORD is unset
    update_interval,  \* self.update_interval, in ticks
    input,            \* the snapshot of the input file the current cycle read
    metrics,          \* periodic_update's local `metrics`: None or Some(dict)
    gauges,           \* self.metrics: the value of each registered gauge
    todo,             \* the items of `metrics` the export loop has not visited yet
    prov,             \* per provisioner, the position inside db_operations; the
                      \* second instance is "absent", or "idle" until it starts,
                      \* and "exited" once its __main__ has seen the outcome
    provErr,          \* per provisioner, the exception its last db_operations raised
    dbExists,         \* the server has the target database
    tableExists,      \* the target database has the health_metrics table
    rows,             \* the committed rows of health_metrics, oldest first
    pending,          \* the row INSERTed in the open transaction, None if there is none
    tmpExists,        \* '<metrics_file>.tmp' exists
    serverStarted,    \* start_metrics_server has run
    sleepLeft,        \* ticks left of the running time.sleep
    openConns,        \* the database connections the tracker's process holds open
    cycle,            \* what the current cycle has done so far (history)
    hmGauges,         \* HealthMetrics.metrics: the value of each of its gauges
    hmInput,          \* the dict of the last update_prometheus_metrics call
    hmRaw,            \* the raw_metrics argument of process_raw_metrics
    hmProcessed       \* what process_raw_metrics returned, None before the call

trackerVars == <<pc, password, update_interval, input, metrics, gauges, todo,
          prov, provErr, dbExists, tableExists, rows, pending, tmpExists,
          serverStarted, sleepLeft, openConns, cycle>>

hmVars == <<hmGauges, hmInput, hmRaw, hmProcessed>>

vars == <<trackerVars, hmVars>>

Procs == {"self", "peer"}

\* os.getenv('POSTGRES_PASSWORD'): unset, empty, or a password.
Passwords == {None, Some(""), Some("secret")}

\* The positions of the try block of periodic_update (lines 195-205) before its sleep.
CyclePcs == {"reading", "prov", "insert", "commit", "exporting"}

NoInput == [kind |-> "none"]

\* The history of a cycle that begins with rows rws in the table and gauges g:
\* what it has attempted, the gauges it has set, the phase an exception left it
\* in, its calls of time.sleep and the ticks it has slept.
NewCycle(rws, g) ==
    [rows0 |-> rws, gauges0 |-> g, provTried |-> FALSE, insertTried |-> FALSE,
     set |-> {}, err |-> "none", sleeps |-> 0, slept |-> 0]

\* Construction registers every gauge; a prometheus gauge starts at 0.
Init ==
    /\ pc = "construct"
    /\ password \in Passwords
    /\ update_interval = MaxInterval
    /\ input = NoInput
    /\ metrics = None
    /\ gauges = [g \in TrackerGauges |-> 0]
    /\ todo = << >>
    /\ \E peer \in {"absent", "idle"} :
          prov = [p \in Procs |-> IF p = "self" THEN "idle" ELSE peer]
    /\ provErr = [p \in Procs |-> "none"]
    /\ dbExists \in BOOLEAN
    /\ tableExists \in {FALSE, dbExists}
    /\ rows = << >>
    /\ pending = None
    /\ tmpExists = FALSE
    /\ serverStarted = FALSE
    /\ sleepLeft = 0
    /\ openConns = 0
    /\ cycle = NewCycle(<< >>, [g \in TrackerGauges |-> 0])
    /\ hmGauges = [g \in HealthMetricsGauges |-> 0]
    /\ hmInput = << >>
    /\ hmRaw = << >>
    /\ hmProcessed = None

\* ------------------------------------------------- the scheduler's plumbing

\* A handler that names the database errors only (`except psycopg2.Error`).
CatchesDatabaseErrors(e) ==
    e \in {"OperationalError", "DatabaseError", "DuplicateDatabase"}

\* `except Exception` (line 207) catches every exception class raised in the try block.
Catches(e) == TRUE

\* time.sleep(self.update_interval) at the end of the try block (line 205).
SleepAfterCycle(interval) == interval

\* A handler that logs the error and loops at once, without its sleep.
SleepAfterErrorSkipped(interval) == 0

\* time.sleep(self.update_interval) in the except handler (line 209).
SleepAfterError(interval) == interval

\* A call of time.sleep from the try block ("try") or from the handler ("except").
Sleep(site, cyc) ==
    /\ pc' = "sleeping"
    /\ sleepLeft' = IF site = "try" THEN SleepAfterCycle(update_interval)
                    ELSE SleepAfterError(update_interval)
    /\ cycle' = [cyc EXCEPT !.sleeps = @ + 1]

\* Exception e leaves the try block of periodic_update during `phase`: the handler
\* logs it and sleeps; an exception it did not catch would end the thread.
Raise(e, phase, cyc) ==
    IF Catches(e)
    THEN Sleep("except", [cyc EXCEPT !.err = phase])
    ELSE /\ pc' = "crashed"
         /\ cycle' = [cyc EXCEPT !.err = phase]
         /\ UNCHANGED sleepLeft

\* No line of the program calls conn.close(), and leaving `with conn:` commits or
\* rolls back without closing: a connection is closed when the last reference to
\* it goes, which under reference counting is when the local `conn` is rebound or
\* its frame is freed.  A frame that returned is freed at once; a frame an
\* exception left is kept by the traceback for as long as a handler holds the
\* exception.

\* The connections of the tracker after a step of provisioner p that leaves the
\* tracker with n of them; a step of the second instance changes nothing here.
Holds(p, n) == IF p = "self" THEN n ELSE openConns

\* The same after db_operations raised with n connections in its frame: __main__
\* re-raises and the process ends, periodic_update handles the exception.
HoldsRaised(p, n) == IF p = "self" /\ pc = "main_prov" THEN 0 ELSE Holds(p, n)

\* ------------------------------------------------------------ the bootstrap

\* A constructor that accepts any password, also none.
PasswordUnchecked(pw) == TRUE

\* Line 42: `if not self.conn_params['password']` lets a non-empty password pass.
PasswordGiven(pw) == TruthyStr(pw)

\* HealthTracker(): a missing or empty password raises ValueError, which __main__
\* logs as fatal and re-raises; otherwise __main__ calls tracker.db_operations().
Construct ==
    /\ pc = "construct"
    /\ IF PasswordGiven(password)
       THEN /\ pc' = "main_prov"
            /\ prov' = [prov EXCEPT !["self"] = "start"]
       ELSE /\ pc' = "fatal"
            /\ UNCHANGED prov
    /\ UNCHANGED <<password, openConns, update_interval, input, metrics, gauges,
                   todo, provErr, dbExists, tableExists, rows, pending, tmpExists,
                   serverStarted, sleepLeft, cycle>>
    /\ UNCHANGED hmVars

\* start_metrics_server, then the updater thread starts periodic_update.
StartMetricsServer ==
    /\ pc = "start_server"
    /\ serverStarted' = TRUE
    /\ pc' = "reading"
    /\ cycle' = NewCycle(rows, gauges)
    /\ UNCHANGED <<password, openConns, update_interval, input, metrics, gauges,
                   todo, prov, provErr, dbExists, tableExists, rows, pending,
                   tmpExists, sleepLeft>>
    /\ UNCHANGED hmVars

\* --------------------------------------------------------- db_operations

\* A provisioner that creates the database without looking it up.
NeedsCreateAlways(exists) == TRUE

\* The row test after SELECT 1 FROM pg_database WHERE datname = <target>.
NeedsCreate(exists) == ~exists

\* A provisioner that drops the table and creates it again.
CreateTableDropFirst(exists, rws) == << >>

\* CREATE TABLE IF NOT EXISTS health_metrics: the rows the table holds afterwards.
CreateTableIfNotExists(exists, rws) == IF exists THEN rws ELSE << >>

\* A db_operations whose handler logs the error and does not re-raise it: the
\* caller goes on as after a successful call.
ProvReturnSwallowed(p, outcome, e) ==
    /\ prov' = [prov EXCEPT ![p] = IF p = "self" THEN "idle" ELSE outcome]
    /\ provErr' = [provErr EXCEPT ![p] = e]
    /\ IF p # "self" THEN UNCHANGED <<pc, sleepLeft, cycle>>
       ELSE /\ pc' = IF pc = "main_prov" THEN "start_server" ELSE "insert"
            /\ cycle' = IF outcome = "ok" \/ pc = "main_prov" THEN cycle
                        ELSE [cycle EXCEPT !.err = "provision"]
            /\ UNCHANGED sleepLeft

\* db_operations of provisioner p returns ("ok") or raises e ("raised"); for the
\* tracker itself the caller goes on at once: __main__ starts the server or dies, and
\* record_health_metrics goes on to the INSERT or re-raises into periodic_update.
ProvReturn(p, outcome, e) ==
    /\ prov' = [prov EXCEPT ![p] = IF p = "self" THEN "idle" ELSE outcome]
    /\ provErr' = [provErr EXCEPT ![p] = e]
    /\ IF p # "self" THEN UNCHANGED <<pc, sleepLeft, cycle>>
       ELSE IF pc = "main_prov"
       THEN /\ pc' = IF outcome = "ok" THEN "start_server" ELSE "fatal"
            /\ UNCHANGED <<sleepLeft, cycle>>
       ELSE IF outcome = "ok"
       THEN /\ pc' = "insert"
            /\ UNCHANGED <<sleepLeft, cycle>>
       ELSE Raise(e, "provision", cycle)

\* Lines 123-127: connect to the 'postgres' database and look the target up.  A
\* connect that fails leaves no connection behind.
ProvCheck(p) ==
    /\ prov[p] = "start"
    /\ \E ok \in BOOLEAN :
        IF ok
        THEN /\ prov' = [prov EXCEPT ![p] = IF NeedsCreate(dbExists) THEN "create"
                                             ELSE "target"]
             /\ openConns' = Holds(p, 1)
             /\ UNCHANGED <<pc, provErr, sleepLeft, cycle>>
        ELSE /\ ProvReturn(p, "raised", "OperationalError")
             /\ openConns' = HoldsRaised(p, 0)
    /\ UNCHANGED <<password, update_interval, input, metrics, gauges,
                   todo, dbExists, tableExists, rows, pending, tmpExists,
                   serverStarted>>
    /\ UNCHANGED hmVars

\* Line 128: CREATE DATABASE, which the server refuses when the database exists.
ProvCreateDatabase(p) ==
    /\ prov[p] = "create"
    /\ IF dbExists
       THEN /\ ProvReturn(p, "raised", "DuplicateDatabase")
            /\ openConns' = HoldsRaised(p, 1)
            /\ UNCHANGED dbExists
       ELSE /\ dbExists' = TRUE
            /\ prov' = [prov EXCEPT ![p] = "target"]
            /\ UNCHANGED <<pc, provErr, sleepLeft, openConns, cycle>>
    /\ UNCHANGED <<password, update_interval, input, metrics, gauges,
                   todo, tableExists, rows, pending, tmpExists, serverStarted>>
    /\ UNCHANGED hmVars

\* Lines 131-144: connect to the target database, CREATE TABLE IF NOT EXISTS.
\* Binding the new connection to `conn` drops the one to 'postgres', and the
\* return frees the frame; when connect_db raises, `conn` still is the first one.
ProvCreateTable(p) ==
    /\ prov[p] = "target"
    /\ \E ok \in BOOLEAN :
        IF ok /\ dbExists
        THEN /\ tableExists' = TRUE
             /\ rows' = CreateTableIfNotExists(tableExists, rows)
             /\ ProvReturn(p, "ok", "none")
             /\ openConns' = Holds(p, 0)
        ELSE /\ ProvReturn(p, "raised", "OperationalError")
             /\ openConns' = HoldsRaised(p, 1)
             /\ UNCHANGED <<tableExists, rows>>
    /\ UNCHANGED <<password, update_interval, input, metrics, gauges,
                   todo, dbExists, pending, tmpExists, serverStarted>>
    /\ UNCHANGED hmVars

\* A second instance of the program starts and runs its own db_operations.
PeerStart ==
    /\ prov["peer"] = "idle"
    /\ prov' = [prov EXCEPT !["peer"] = "start"]
    /\ UNCHANGED <<pc, password, openConns, update_interval, input, metrics, gauges,
                   todo, provErr, dbExists, tableExists, rows, pending, tmpExists,
                   serverStarted, sleepLeft, cycle>>
    /\ UNCHANGED hmVars

\* The second instance's __main__ has seen its db_operations return or raise.
PeerDone ==
    /\ prov["peer"] \in {"ok", "raised"}
    /\ prov' = [prov EXCEPT !["peer"] = "exited"]
    /\ provErr' = [provErr EXCEPT !["peer"] = "none"]
    /\ UNCHANGED <<pc, password, openConns, update_interval, input, metrics, gauges,
                   todo, dbExists, tableExists, rows, pending, tmpExists,
                   serverStarted, sleepLeft, cycle>>
    /\ UNCHANGED hmVars

\* ------------------------------------------------------- periodic_update

\* The parameters of the INSERT (db_metrics, lines 169-174): a missing key and a
\* None value both become SQL NULL (None).
DbMetrics(m) == [c \in TableColumns |-> Get(m, c)]

\* An export that writes 0 for an absent value (`value or 0`).
SetGaugeOrZero(g, metric_name, value) ==
    IF metric_name \in DOMAIN g
    THEN [g EXCEPT ![metric_name] = IF value = None THEN 0 ELSE value[1]]
    ELSE g

\* Lines 181-183 (and HealthMetrics.update_prometheus_metrics): one item of the dict.
SetGauge(g, metric_name, value) ==
    IF value # None /\ metric_name \in DOMAIN g
    THEN [g EXCEPT ![metric_name] = value[1]]
    ELSE g

\* Lines 197-200: read_metrics, then `if metrics:` - a truthy dict goes on to
\* record_health_metrics (which starts with db_operations), anything else sleeps.
ReadMetrics ==
    /\ pc = "reading"
    /\ \E file \in Files, today \in Todays :
        LET r == read_metrics(file, tmpExists, today) IN
        /\ input' = file
        /\ tmpExists' = r.tmp
        /\ metrics' = IF r.exc = "none" THEN r.ret ELSE metrics
        /\ IF r.exc # "none"
           THEN /\ Raise(r.exc, "read", cycle)
                /\ UNCHANGED prov
           ELSE IF MetricsTruthy(r.ret)
           THEN /\ pc' = "prov"
                /\ prov' = [prov EXCEPT !["self"] = "start"]
                /\ cycle' = [cycle EXCEPT !.provTried = TRUE]
                /\ UNCHANGED sleepLeft
           ELSE /\ Sleep("try", cycle)
                /\ UNCHANGED prov
    /\ UNCHANGED <<password, openConns, update_interval, gauges, todo, provErr,
                   dbExists, tableExists, rows, pending, serverStarted>>
    /\ UNCHANGED hmVars

\* Lines 153-176: connect_db, then cur.execute(INSERT).  The connection can fail;
\* the server refuses the INSERT when the table is missing or full.
Insert ==
    /\ pc = "insert"
    /\ \E ok \in BOOLEAN :
        IF ~ok
        THEN /\ Raise("OperationalError", "connect", cycle)
             /\ UNCHANGED <<pending, openConns>>
        ELSE IF tableExists /\ Len(rows) < MaxRows
        THEN /\ pending' = Some(DbMetrics(metrics[1]))
             /\ pc' = "commit"
             /\ openConns' = 1
             /\ cycle' = [cycle EXCEPT !.insertTried = TRUE]
             /\ UNCHANGED sleepLeft
        ELSE /\ Raise("DatabaseError", "insert", [cycle EXCEPT !.insertTried = TRUE])
             /\ openConns' = 1
             /\ UNCHANGED pending
    /\ UNCHANGED <<password, update_interval, input, metrics, gauges,
                   todo, prov, provErr, dbExists, tableExists, rows, tmpExists,
                   serverStarted>>
    /\ UNCHANGED hmVars

\* Line 177: conn.commit().  A failed commit leaves the `with` block by the
\* exception, which rolls the transaction back.
Commit ==
    /\ pc = "commit"
    /\ pending' = None
    /\ \E ok \in BOOLEAN :
        IF ok
        THEN /\ rows' = Append(rows, pending[1])
             /\ pc' = "exporting"
             /\ todo' = Items(metrics[1])
             /\ UNCHANGED <<sleepLeft, cycle>>
        ELSE /\ Raise("OperationalError", "commit", cycle)
             /\ UNCHANGED <<rows, todo>>
    /\ UNCHANGED <<password, openConns, update_interval, input, metrics, gauges,
                   prov, provErr, dbExists, tableExists, tmpExists, serverStarted>>
    /\ UNCHANGED hmVars

\* Lines 181-183: one turn of the export loop; after the last item
\* record_health_metrics returns and the try block sleeps (lines 202-205).
Export ==
    /\ pc = "exporting"
    /\ todo # << >>
    /\ LET metric_name == Head(todo)
           value == metrics[1][metric_name]
       IN  /\ gauges' = SetGauge(gauges, metric_name, value)
           /\ todo' = Tail(todo)
           /\ LET cyc == IF value # None /\ metric_name \in DOMAIN gauges
                         THEN [cycle EXCEPT !.set = @ \cup {metric_name}]
                         ELSE cycle
              IN  IF Tail(todo) = << >>
                  THEN /\ Sleep("try", cyc)
                       /\ openConns' = 0
                  ELSE /\ pc' = "exporting"
                       /\ cycle' = cyc
                       /\ UNCHANGED <<sleepLeft, openConns>>
    /\ UNCHANGED <<password, update_interval, input, metrics, prov,
                   provErr, dbExists, tableExists, rows, pending, tmpExists,
                   serverStarted>>
    /\ UNCHANGED hmVars

\* One tick of time.sleep.
Tick ==
    /\ pc = "sleeping"
    /\ sleepLeft > 0
    /\ sleepLeft' = sleepLeft - 1
    /\ cycle' = [cycle EXCEPT !.slept = @ + 1]
    /\ UNCHANGED <<pc, password, openConns, update_interval, input, metrics, gauges,
                   todo, prov, provErr, dbExists, tableExists, rows, pending,
                   tmpExists, serverStarted>>
    /\ UNCHANGED hmVars

\* time.sleep returns and `while True` begins the next cycle; leaving the handler
\* deletes its exception and with it the frames of the failed calls.
Wake ==
    /\ pc = "sleeping"
    /\ sleepLeft = 0
    /\ pc' = "reading"
    /\ cycle' = NewCycle(rows, gauges)
    /\ openConns' = 0
    /\ UNCHANGED <<password, update_interval, input, metrics, gauges,
                   todo, prov, provErr, dbExists, tableExists, rows, pending,
                   tmpExists, serverStarted, sleepLeft>>
    /\ UNCHANGED hmVars

\* ------------------------------------------------------- app/core/utils.py

\* utils.calculate_age: None for a falsy or unparseable string, else
\* round((today - birth_date).days / 365.25, 1), in tenths of a year.
utils_calculate_age(birth_date_str, today) ==
    IF ~TruthyStr(birth_date_str) THEN None
    ELSE IF birth_date_str[1] \notin ValidDates THEN None
    ELSE Some(RoundHalfEven(40 * (today - DateDays(birth_date_str[1])), 1461))

\* A calculate_bmi that cuts the quotient off instead of rounding it.
calculate_bmi_truncated(weight_kg, height_cm) ==
    IF ~Truthy(weight_kg) \/ ~Truthy(height_cm) THEN None
    ELSE Some((weight_kg[1] * 1000000) \div (height_cm[1] * height_cm[1]))

\* utils.calculate_bmi: None when either argument is falsy, else
\* round(weight_kg / (height_cm / 100) ** 2, 1), in tenths.
utils_calculate_bmi(weight_kg, height_cm) ==
    IF ~Truthy(weight_kg) \/ ~Truthy(height_cm) THEN None
    ELSE Some(RoundHalfEven(weight_kg[1] * 1000000, height_cm[1] * height_cm[1]))

\* validate_water_intake: None for a falsy or negative argument, else
\* round(water_intake, 2): thousandths of a litre in, hundredths out.
validate_water_intake(water_intake) ==
    IF ~Truthy(water_intake) \/ water_intake[1] < 0 THEN None
    ELSE Some(RoundHalfEven(water_intake[1], 10))

\* validate_sleep_duration: None for a falsy argument, a negative one or one
\* above 24 hours, else round(sleep_hours, 1): hundredths of an hour in, tenths out.
validate_sleep_duration(sleep_hours) ==
    IF ~Truthy(sleep_hours) \/ sleep_hours[1] < 0 \/ sleep_hours[1] > 2400 THEN None
    ELSE Some(RoundHalfEven(sleep_hours[1], 10))

\* HealthMetrics.process_raw_metrics(raw_metrics): age only when the raw dict has
\* a birth_date key.
process_raw_metrics(raw_metrics, today) ==
    LET D == {"body_weight", "body_height", "water_intake", "sleep_duration", "bmi"}
             \cup (IF "birth_date" \in DOMAIN raw_metrics THEN {"age"} ELSE {})
    IN  [k \in D |->
            CASE k = "body_weight" -> Get(raw_metrics, "body_weight")
              [] k = "body_height" -> Get(raw_metrics, "body_height")
              [] k = "water_intake" ->
                    validate_water_intake(Get(raw_metrics, "water_intake"))
              [] k = "sleep_duration" ->
                    validate_sleep_duration(Get(raw_metrics, "sleep_duration"))
              [] k = "age" -> utils_calculate_age(raw_metrics["birth_date"], today)
              [] k = "bmi" -> utils_calculate_bmi(Get(raw_metrics, "body_weight"),
                                                  Get(raw_metrics, "body_height"))]

\* The arguments tried.  A tie of round() is only a tie when the decimal is exact
\* in binary (x.25 and x.75 hours, x.125 and x.375 litres): those are the ties here.
Weights == {None, Some(0), Some(700), Some(805), Some(1234)}
Heights == {None, Some(0), Some(1750), Some(1600)}
WaterIntakes ==
    {None, Some(-500), Some(0), Some(4), Some(2125), Some(2375), Some(2567),
     Some(1000000000)}
SleepDurations ==
    {None, Some(-100), Some(0), Some(4), Some(725), Some(775), Some(800),
     Some(2400), Some(2401), Some(2500)}
BirthDates == {"missing", "1990-01-01"}

\* A raw_metrics dict: a key is present unless its value is None ("missing").
RawMetrics(w, h, b, water, sleep) ==
    LET D == (IF w # None THEN {"body_weight"} ELSE {})
             \cup (IF h # None THEN {"body_height"} ELSE {})
             \cup (IF b # "missing" THEN {"birth_date"} ELSE {})
             \cup (IF water # None THEN {"water_intake"} ELSE {})
             \cup (IF sleep # None THEN {"sleep_duration"} ELSE {})
    IN  [k \in D |->
            CASE k = "body_weight" -> w
              [] k = "body_height" -> h
              [] k = "birth_date" -> Some(b)
              [] k = "water_intake" -> water
              [] k = "sleep_duration" -> sleep]

RawMetricsInputs ==
    {RawMetrics(w, h, b, water, sleep) :
        w \in Weights, h \in Heights, b \in BirthDates,
        water \in WaterIntakes, sleep \in SleepDurations}

\* ----------------------------------------------------------- HealthMetrics

\* The names and values a caller passes to update_prometheus_metrics: registered
\* gauges and a name that is none ("heart_rate"); None, 1.0 and 2.0.
DictNames == {"body_weight", "sleep_duration", "heart_rate"}
DictValues == {None, Some(10), Some(20)}
Dicts == UNION {[D -> DictValues] : D \in SUBSET DictNames}

\* The loop of update_prometheus_metrics over the items named in `names`.
RECURSIVE SetGauges(_, _, _)
SetGauges(g, m, names) ==
    IF names = {} THEN g
    ELSE LET metric_name == CHOOSE k \in names : TRUE
         IN  SetGauges(SetGauge(g, metric_name, m[metric_name]), m,
                       names \ {metric_name})

\* HealthMetrics.update_prometheus_metrics(metrics).
update_prometheus_metrics(g, m) == SetGauges(g, m, DOMAIN m)

\* A HealthMetrics object as constructed, before any call; the tracker of
\* collector.py is not running.
HealthMetricsConstructed ==
    /\ pc = "construct"
    /\ password = Some("secret")
    /\ update_interval = MaxInterval
    /\ input = NoInput
    /\ metrics = None
    /\ gauges = [g \in TrackerGauges |-> 0]
    /\ todo = << >>
    /\ prov = [p \in Procs |-> IF p = "self" THEN "idle" ELSE "absent"]
    /\ provErr = [p \in Procs |-> "none"]
    /\ dbExists = FALSE
    /\ tableExists = FALSE
    /\ rows = << >>
    /\ pending = None
    /\ tmpExists = FALSE
    /\ serverStarted = FALSE
    /\ sleepLeft = 0
    /\ openConns = 0
    /\ cycle = NewCycle(<< >>, [g \in TrackerGauges |-> 0])
    /\ hmGauges = [g \in HealthMetricsGauges |-> 0]
    /\ hmInput = << >>

\* A HealthMetrics object on which only update_prometheus_metrics is called.
HealthMetricsInit ==
    /\ HealthMetricsConstructed
    /\ hmRaw = << >>
    /\ hmProcessed = None

\* A call of update_prometheus_metrics with the dict m.
UpdatePrometheusMetrics ==
    /\ \E m \in Dicts :
        /\ hmInput' = m
        /\ hmGauges' = update_prometheus_metrics(hmGauges, m)
    /\ UNCHANGED <<trackerVars, hmRaw, hmProcessed>>

\* A HealthMetrics object about to process one raw_metrics dict.
ProcessInit ==
    /\ HealthMetricsConstructed
    /\ hmRaw \in RawMetricsInputs
    /\ hmProcessed = None

\* The call process_raw_metrics(hmRaw).
ProcessRawMetrics ==
    /\ hmProcessed = None
    /\ \E today \in Todays : hmProcessed' = Some(process_raw_metrics(hmRaw, today))
    /\ UNCHANGED <<trackerVars, hmGauges, hmInput, hmRaw>>

\* ------------------------------------------------------- the specification

Next ==
    \/ Construct
    \/ StartMetricsServer
    \/ \E p \in Procs : ProvCheck(p)
    \/ \E p \in Procs : ProvCreateDatabase(p)
    \/ \E p \in Procs : ProvCreateTable(p)
    \/ PeerStart
    \/ PeerDone
    \/ ReadMetrics
    \/ Insert
    \/ Commit
    \/ Export
    \/ Tick
    \/ Wake

Spec == Init /\ [][Next]_vars

\* The steps of the tracker's own threads: the bootstrap and periodic_update,
\* with the db_operations they call.
TrackerStep ==
    \/ Construct
    \/ StartMetricsServer
    \/ ProvCheck("self")
    \/ ProvCreateDatabase("self")
    \/ ProvCreateTable("self")
    \/ ReadMetrics
    \/ Insert
    \/ Commit
    \/ Export
    \/ Tick
    \/ Wake

\* The interpreter keeps running the updater thread, and time passes.
FairSpec == Spec /\ WF_vars(TrackerStep)

HealthMetricsNext == UpdatePrometheusMetrics

\* A HealthMetrics object under any sequence of update_prometheus_metrics calls.
HealthMetricsSpec == HealthMetricsInit /\ [][HealthMetricsNext]_vars

ProcessNext == ProcessRawMetrics

\* One call of process_raw_metrics, for each of the raw dicts.
ProcessSpec == ProcessInit /\ [][ProcessNext]_vars

\* ------------------------------------------------------------- properties

\* The phases in which an exception is a persistence error: provisioning, the
\* connection for the write, the INSERT and its commit.
PersistenceErrors == {"provision", "connect", "insert", "commit"}

\* C1: once periodic_update runs, no exception of a cycle ends the loop: the thread
\* never dies, every cycle reaches its sleep and every sleep is followed by the
\* next cycle's read.
C1_LoopNeverEnds ==
    /\ [](pc # "crashed")
    /\ (pc \in CyclePcs) ~> (pc = "sleeping")
    /\ (pc = "sleeping") ~> (pc = "reading")

\* C1 witness: a cycle that failed after an earlier one had committed a row is
\* at the end of its sleep, about to begin the next cycle.
C1_Witness ==
    pc = "sleeping" /\ sleepLeft = 0 /\ cycle.err # "none" /\ Len(rows) >= 1

\* C2: every cycle, however it ends, calls time.sleep once with the full
\* update_interval, and the next read begins only when that sleep has run out.
C2_OneFullSleep ==
    [][/\ (pc \in CyclePcs /\ pc' \notin CyclePcs)
            => (pc' = "sleeping" /\ sleepLeft' = update_interval /\ cycle'.sleeps = 1)
       /\ (pc = "sleeping")
            => (/\ pc' \in {"sleeping", "reading"}
                /\ pc' = "reading"
                     => (cycle.sleeps = 1 /\ cycle.slept = update_interval))
       /\ (pc' = "reading" /\ pc # "reading")
            => pc \in {"sleeping", "start_server"}]_vars

\* C2 witness: a cycle that ended with an exception has slept its whole interval.
C2_Witness ==
    /\ pc = "sleeping"
    /\ cycle.err = "read"
    /\ cycle.sleeps = 1
    /\ cycle.slept = update_interval
    /\ update_interval > 1

\* C3: a cycle that found the input file missing or not JSON is asleep with no new
\* row, no gauge changed, no provisioning or INSERT attempted and no exception.
C3_SkipLeavesNoTrace ==
    (pc = "sleeping" /\ input.kind \in {"absent", "invalid"})
        => /\ rows = cycle.rows0
           /\ gauges = cycle.gauges0
           /\ ~cycle.provTried
           /\ ~cycle.insertTried
           /\ cycle.err = "none"
           /\ cycle.sleeps = 1

\* C3 witness: a skipped cycle sleeps while the table and the gauges hold the
\* values of an earlier cycle.
C3_Witness ==
    /\ pc = "sleeping"
    /\ input.kind = "invalid"
    /\ Len(rows) >= 1
    /\ gauges["body_weight"] # 0

\* C4: a cycle whose provisioning, connection, INSERT or commit failed is asleep
\* for the full interval with every gauge as the cycle found it, and a failed
\* provisioning is followed by no INSERT.
C4_PersistenceErrorAbandonsCycle ==
    (pc = "sleeping" /\ cycle.err \in PersistenceErrors)
        => /\ gauges = cycle.gauges0
           /\ cycle.set = {}
           /\ cycle.err = "provision" => ~cycle.insertTried
           /\ cycle.sleeps = 1
           /\ sleepLeft + cycle.slept = update_interval

\* C4 witness: the INSERT of a cycle with a weight to export failed.
C4_Witness ==
    /\ pc = "sleeping"
    /\ cycle.err = "insert"
    /\ metrics # None
    /\ metrics[1]["body_weight"] = Some(800)
    /\ gauges["body_weight"] = 700

\* C5 (as claimed): a cycle that read the input with all five fields valid and
\* finished without error has added one row and set all six gauges.
C5_AllSixGaugesSet ==
    (pc = "sleeping" /\ input = [kind |-> "object", raw |-> FullObject]
                     /\ cycle.err = "none")
        => /\ Len(rows) = Len(cycle.rows0) + 1
           /\ cycle.set = HealthMetricsGauges

\* C6: the table is append-only: no step removes or changes a committed row.
C6_AppendOnly ==
    [][Len(rows') >= Len(rows) /\ SubSeq(rows', 1, Len(rows)) = rows]_vars

\* C6 witness: the provisioner has run again over a table that holds two rows.
C6_Witness ==
    pc = "insert" /\ cycle.provTried /\ Len(rows) >= 2

\* C7 (as claimed): every committed row carries the six sanitized fields.
C7_RowHasSixFields ==
    \A i \in 1..Len(rows) : DOMAIN rows[i] = HealthMetricsGauges

\* C8: once a call of db_operations has returned, the database and the table
\* exist; a call on an existing database and table changes nothing; and a call that
\* no concurrent provisioner overtakes raises no SQL error (it fails only when
\* the server cannot be reached).
C8_ProvisionIdempotent ==
    /\ [](pc \notin {"construct", "main_prov", "fatal"} => dbExists /\ tableExists)
    /\ [](provErr["self"] = "DuplicateDatabase"
            => (pc = "fatal" /\ prov["peer"] \notin {"absent", "idle", "start", "create"}))
    /\ [][(dbExists /\ tableExists /\ prov' # prov)
            => (dbExists' /\ tableExists' /\ rows' = rows)]_vars

\* C8 witness: with no second instance and a row in the table, a later call of
\* db_operations (at least the second) has returned without error.
C8_Witness ==
    /\ pc = "insert"
    /\ prov["peer"] = "absent"
    /\ provErr["self"] = "none"
    /\ Len(rows) >= 1
    /\ cycle.rows0 = rows

\* C9 (as claimed): no provisioner ever fails because a concurrent provisioner
\* created the database first.
C9_RaceTolerated ==
    \A p \in Procs : provErr[p] # "DuplicateDatabase"

\* C10: a call of update_prometheus_metrics sets exactly the registered gauges
\* whose value in the dict is present; every other gauge, whatever unknown names
\* or absent values the dict holds, keeps the value it had.
C10_SkipKeepsLastValue ==
    [][/\ DOMAIN hmGauges' = HealthMetricsGauges
       /\ \A g \in HealthMetricsGauges :
            hmGauges'[g] = IF g \in DOMAIN hmInput' /\ hmInput'[g] # None
                           THEN hmInput'[g][1]
                           ELSE hmGauges[g]]_vars

\* C10 witness: after a call with an unknown name and an absent value, the gauge
\* of the absent value still holds what an earlier call set.
C10_Witness ==
    /\ "heart_rate" \in DOMAIN hmInput
    /\ "body_weight" \in DOMAIN hmInput
    /\ hmInput["body_weight"] = None
    /\ hmGauges["body_weight"] = 20

\* C11: without a password (unset or empty) the process never gets past
\* construction: it ends fatally, and this tracker runs no provisioning step, never
\* starts the metrics server and never reads an input.
C11_NoPasswordIsFatal ==
    ~TruthyStr(password)
        => /\ pc \in {"construct", "fatal"}
           /\ prov["self"] = "idle"
           /\ provErr["self"] = "none"
           /\ ~serverStarted
           /\ input = NoInput
           /\ rows = << >>

\* C11 witness: the constructor has refused an empty password.
C11_Witness ==
    pc = "fatal" /\ password = Some("") /\ prov["self"] = "idle"

\* The positions of a cycle after its read returned a truthy dict, and its sleep.
AfterRead == {"prov", "insert", "commit", "exporting", "sleeping"}

\* C12: a cycle that read an object raises nothing while deriving: a bad date
\* makes only age absent and a falsy weight or height only bmi, the other fields
\* are produced, the cycle goes on to persist, and unless persistence fails its
\* row is inserted with exactly those values.
C12_DerivationErrorIsLocal ==
    (input.kind = "object" /\ pc \in AfterRead)
        => LET raw == input.raw
               w == Get(raw, "body_weight")
               h == Get(raw, "body_height")
           IN  /\ cycle.err # "read"
               /\ cycle.provTried
               /\ metrics # None
               /\ metrics[1]["body_weight"] = w
               /\ metrics[1]["body_height"] = h
               /\ (metrics[1]["bmi"] = None) <=> (~Truthy(w) \/ ~Truthy(h))
               /\ "birth_date" \in DOMAIN raw
                    => /\ "age" \in DOMAIN metrics[1]
                       /\ (metrics[1]["age"] = None)
                            <=> (raw["birth_date"][1] \notin ValidDates)
               /\ (pc = "sleeping" /\ cycle.err = "none")
                    => rows = Append(cycle.rows0, DbMetrics(metrics[1]))

\* C12 witness: the cycle that read a zero weight and an unparseable date has
\* inserted its row, with the height and without age and bmi.
C12_Witness ==
    /\ pc = "sleeping"
    /\ cycle.err = "none"
    /\ input = [kind |-> "object",
                raw |-> RawObject(Some(0), Some(1750), "not-a-date", FALSE)]
    /\ Len(rows) >= 1
    /\ rows[Len(rows)] = [body_weight |-> Some(0), body_height |-> Some(1750),
                          age |-> None, bmi |-> None]

\* C13: validate_sleep_duration returns None exactly for a missing, a negative
\* or an above-24 argument, and for every other one, 0 and 24 included, the
\* argument rounded to one decimal.
C13_SleepAbsentExactly ==
    hmProcessed # None
        => LET sleep_hours == Get(hmRaw, "sleep_duration")
               result == hmProcessed[1]["sleep_duration"]
           IN  IF sleep_hours = None \/ sleep_hours[1] < 0 \/ sleep_hours[1] > 2400
               THEN result = None
               ELSE result = Some(RoundHalfEven(sleep_hours[1], 10))

\* C14: validate_water_intake returns None exactly for a missing or a negative
\* argument, and for every other one, 0 and very large ones included, the
\* argument rounded to two decimals.
C14_WaterAbsentExactly ==
    hmProcessed # None
        => LET water_intake == Get(hmRaw, "water_intake")
               result == hmProcessed[1]["water_intake"]
           IN  IF water_intake = None \/ water_intake[1] < 0
               THEN result = None
               ELSE result = Some(RoundHalfEven(water_intake[1], 10))

\* C15: for a positive weight and height calculate_bmi returns the tenth nearest
\* to weight / (height/100)^2 (the even one on a tie); for a weight or height
\* that is 0 or absent it returns None, and the call returns in every case.  The
\* method of HealthTracker computes the same as the function of utils.
C15_BmiRoundedQuotient ==
    hmProcessed # None
        => LET w == Get(hmRaw, "body_weight")
               h == Get(hmRaw, "body_height")
               bmi == hmProcessed[1]["bmi"]
           IN  /\ calculate_bmi(w, h) = bmi
               /\ IF w = None \/ h = None \/ w[1] = 0 \/ h[1] = 0
                  THEN bmi = None
                  ELSE /\ bmi # None
                       /\ LET diff == bmi[1] * h[1] * h[1] - w[1] * 1000000
                          IN  /\ 2 * diff <= h[1] * h[1]
                              /\ -2 * diff <= h[1] * h[1]
                              /\ (2 * diff = h[1] * h[1] \/ -2 * diff = h[1] * h[1])
                                   => bmi[1] % 2 = 0

\* C15 witness: 70 kg at 175 cm came out as 22.9.
C15_Witness ==
    /\ hmProcessed # None
    /\ Get(hmRaw, "body_weight") = Some(700)
    /\ Get(hmRaw, "body_height") = Some(1750)
    /\ hmProcessed[1]["bmi"] = Some(229)

\* C16: whatever the outcome of the read, the copy '<metrics_file>.tmp' is gone
\* once read_metrics is over: it does not exist while the cycle persists,
\* exports or sleeps.
C16_TmpNeverSurvives ==
    pc \in AfterRead => ~tmpExists

\* C17: every connection a provisioning or write operation opened is closed
\* once the operation has returned or raised: the tracker holds none while it
\* reads and none while it sleeps.
C17_NoConnectionWhileSleeping ==
    pc \in {"reading", "sleeping"} => openConns = 0

\* C18: the INSERT is attempted only after db_operations has returned without
\* raising earlier in the same cycle, when the database and the table exist; a
\* cycle whose provisioning raised attempts no INSERT and leaves the table alone.
C18_InsertAfterProvision ==
    /\ pc \in {"insert", "commit"}
        => /\ cycle.provTried
           /\ prov["self"] = "idle"
           /\ provErr["self"] = "none"
           /\ dbExists
           /\ tableExists
    /\ cycle.insertTried => (cycle.provTried /\ cycle.err # "provision")
    /\ cycle.err = "provision"
        => /\ ~cycle.insertTried
           /\ pending = None
           /\ rows = cycle.rows0

\* C18 witness: the second cycle has sent its INSERT and is about to commit.
C18_Witness ==
    /\ pc = "commit"
    /\ cycle.insertTried
    /\ pending # None
    /\ Len(cycle.rows0) = 1

\* The value of column g in the latest of the rows rws that has one, else None.
RECURSIVE LastPersisted(_, _)
LastPersisted(rws, g) ==
    IF rws = << >> THEN None
    ELSE IF rws[Len(rws)][g] # None THEN rws[Len(rws)][g]
    ELSE LastPersisted(SubSeq(rws, 1, Len(rws) - 1), g)

\* What a gauge shows for an optional value: a gauge never set shows 0.
Shown(v) == IF v = None THEN 0 ELSE v[1]

\* Gauge g has been set: by this cycle, or by the cycle of an earlier row.
HasBeenSet(g) == g \in cycle.set \/ LastPersisted(cycle.rows0, g) # None

C20_ObjectAlwaysPersists ==
    /\ (input.kind = "object" /\ pc \in AfterRead)
        => (cycle.provTried /\ metrics # None /\ DOMAIN metrics[1] # {})
    /\ (input.kind = "object" /\ pc = "sleeping" /\ cycle.err = "none")
        => /\ Len(rows) = Len(cycle.rows0) + 1
           /\ \A c \in TableColumns :
                rows[Len(rows)][c] =
                    IF c = "age" /\ "birth_date" \in DOMAIN input.raw
                    THEN calculate_age(input.raw["birth_date"], CHOOSE t \in Todays : TRUE)
                    ELSE IF c = "bmi"
                    THEN calculate_bmi(Get(input.raw, "body_weight"),
                                       Get(input.raw, "body_height"))
                    ELSE IF c = "age" THEN None
                    ELSE Get(input.raw, c)
    /\ (pc = "sleeping" /\ ~cycle.provTried /\ cycle.err = "none")
        => input.kind \in {"absent", "invalid"}

\* C20 witness: the cycle that read the empty object {} has inserted a row of NULLs.
C20_Witness ==
    /\ pc = "sleeping"
    /\ cycle.err = "none"
    /\ input = [kind |-> "object", raw |-> << >>]
    /\ Len(rows) = Len(cycle.rows0) + 1
    /\ \A c \in TableColumns : rows[Len(rows)][c] = None

====
